---- MODULE Spec2Model ----
(***************************************************************************)
(* Model of sarchiapone.py: the polling loop that predicts satellite       *)
(* passes, keeps the list of scheduled passes and drives the single        *)
(* receiver.  Time is an integer clock; one unit is half a minute.         *)
(***************************************************************************)
EXTENDS Integers, Sequences, FiniteSets, TLC

\* ---------------------------------------------------------------- bounds
NumSats == 3      \* number of [sat:...] sections of the configuration
MaxTime == 5      \* the clock stops advancing here
MaxStep == 2      \* longest time between two readings of the clock at the loop head
MaxAhead == 1     \* how far after "now" the predictor places the rise time
MaxDur == 2       \* longest predicted pass (set time minus rise time)
MaxDrift == 1     \* time the predictor call itself may take

\* ------------------------------------------------------ program constants
Minute == 2             \* ephem.minute, in clock units
Threshold == 35000      \* 35. degrees, in millidegrees

None == "None"
Sats == 1..NumSats
Frequencies == {"137.1M", "137.62M"}
ExitCodes == {0, -15, 1}
\* peak elevations the predictor returns, in 1e-4 rad (about 20, 34.99, 35.01 degrees)
Elevations == {3491, 6109, 6110}

VARIABLES
    clock,       \* ephem.now(): the wall clock
    t,           \* the loop's t, read once per tick
    frequency,   \* Satellite.frequency of each satellite (configuration)
    next_check_time,   \* Satellite.next_check_time of each satellite
    np,          \* the loop's np: the pass constructed last in this tick
    passes,      \* the list passes
    receiver,    \* the Receiver object: proc and frequency
    pc,          \* position of the program
    sidx,        \* position of "for sat in satellites"
    idx,         \* position of the list iterator of "for p in passes"
    exc,         \* the exception that ended the program, if any
    nid,         \* identity given to the next pass appended
    atStart,     \* history: identities in passes when "for p in passes" begins
    evals,       \* history: the loop bodies run by "for p in passes" in this tick
    owed         \* history: the earliest deferred pass when a reception was stopped

vars == <<clock, t, frequency, next_check_time, np, passes, receiver, pc, sidx, idx,
          exc, nid, atStart, evals, owed>>

\* ------------------------------------------------------------------ Pass
\* float(ephem_pass[3]) * 180. / math.pi, from 1e-4 rad to millidegrees
MaxElevation(rad) == (rad * 18000) \div 3142

\* Pass.__init__ with the last test assigning its own result
InterestingLastWins(begin, end, max_elevation, now) == ~(end <= begin)

\* the three tests of Pass.__init__, in the order of the code
Interesting(begin, end, max_elevation, now) ==
    LET i1 == IF begin <= now THEN FALSE ELSE TRUE
        i2 == IF max_elevation < Threshold THEN FALSE ELSE i1
        i3 == IF end <= begin THEN FALSE ELSE i2
    IN i3

\* Pass(ephem_pass, sat), constructed when the clock reads now
NewPass(sat, begin, end, rad, now) ==
    [sat |-> sat, begin |-> begin, end |-> end,
     max_elevation |-> MaxElevation(rad),
     interesting |-> Interesting(begin, end, MaxElevation(rad), now),
     status |-> "future", now |-> now]

\* the value of np before any pass was constructed
NoPass ==
    [sat |-> 0, begin |-> 0, end |-> 0, max_elevation |-> 0, interesting |-> FALSE,
     status |-> "future", now |-> 0]

\* ---------------------------------------------------------------- Receiver
Running(r) == ~(r.proc = None)

\* Receiver.start without line 112's assignment to self.proc
ReceiverStartNoProc(r, freq, prefix) == [proc |-> r.proc, frequency |-> freq]

ReceiverStart(r, freq, prefix) ==
    [proc |-> "Popen", frequency |-> freq]

\* the warning of Receiver.stop
StopWarns(code) == ~(code \in {0, -15})

\* Receiver.stop without line 122
ReceiverStopKeepsFrequency(r, code) == [proc |-> None, frequency |-> r.frequency]

\* Receiver.stop returning early on an abnormal return code
ReceiverStopBadCode(r, code) ==
    IF StopWarns(code) THEN r ELSE [proc |-> None, frequency |-> None]

ReceiverStop(r, code) == [proc |-> None, frequency |-> None]

\* ------------------------------------------------------------- list helpers
\* passes.pop() in place of passes.remove(p)
RemoveLast(s, i) == SubSeq(s, 1, Len(s) - 1)

\* list.remove of the element at position i (1-based)
Remove(s, i) == [j \in 1..(Len(s) - 1) |-> IF j < i THEN s[j] ELSE s[j + 1]]

\* the iterator position after the body ran on the element at 0-based position k
NextIdx(k) == k + 1

Ids(s) == [j \in 1..Len(s) |-> s[j].id]

NoOwed == [id |-> 0, age |-> 0, alone |-> FALSE]

\* ------------------------------------------------------------------- Init
Init ==
    /\ clock = 1
    /\ t = 1
    /\ frequency \in {f \in [Sats -> Frequencies] : f[1] = "137.1M"}
    /\ next_check_time = [s \in Sats |-> 0]
    /\ np = NoPass
    /\ passes = <<>>
    /\ receiver = [proc |-> None, frequency |-> None]
    /\ pc = "sats"
    /\ sidx = 1
    /\ idx = 0
    /\ exc = [kind |-> "none", sat |-> 0]
    /\ nid = 1
    /\ atStart = <<>>
    /\ evals = <<>>
    /\ owed = NoOwed

\* line 170 without the margin
NextCheckNoMargin(end) == end

\* line 170: ephem.Date(np.end + ephem.minute)
NextCheck(end) == end + Minute

\* where the program goes when "for sat in satellites" has handled satellite s
AfterSat(s, ps) ==
    IF s < NumSats THEN [pc |-> "sats", sidx |-> s + 1]
    ELSE [pc |-> IF Len(ps) = 0 THEN "sleep" ELSE "passes", sidx |-> s + 1]

\* one iteration of "for sat in satellites" that finds the satellite not due
SkipSat ==
    /\ pc = "sats"
    /\ ~(t > next_check_time[sidx])
    /\ pc' = AfterSat(sidx, passes).pc
    /\ sidx' = AfterSat(sidx, passes).sidx
    /\ idx' = 0
    /\ atStart' = IF sidx = NumSats THEN Ids(passes) ELSE atStart
    /\ UNCHANGED <<clock, t, frequency, next_check_time, np, passes, receiver, exc, nid,
                   evals, owed>>

\* lines 162-170 for satellite sidx: the predictor's answer, constructed into a
\* pass when the clock reads now; id is the identity of the pass if appended
Computed(id, now, ahead, dur, rad) ==
    LET new == NewPass(sidx, now + ahead, now + ahead + dur, rad, now)
        ps == IF new.interesting
              THEN Append(passes, [id |-> id, sat |-> new.sat, begin |-> new.begin,
                                   end |-> new.end,
                                   max_elevation |-> new.max_elevation,
                                   status |-> new.status])
              ELSE passes
    IN /\ clock' = now
       /\ np' = new
       /\ passes' = ps
       /\ next_check_time' = [next_check_time EXCEPT ![sidx] = NextCheck(new.end)]
       /\ pc' = AfterSat(sidx, ps).pc
       /\ sidx' = AfterSat(sidx, ps).sidx
       /\ idx' = 0
       /\ atStart' = IF sidx = NumSats THEN Ids(ps) ELSE atStart

\* one iteration of "for sat in satellites" that recomputes the satellite
Recompute ==
    /\ pc = "sats"
    /\ t > next_check_time[sidx]
    /\ \E drift \in 0..MaxDrift, ahead \in 0..MaxAhead, dur \in 0..MaxDur,
          rad \in Elevations :
        /\ clock + drift <= MaxTime
        /\ Computed(nid, clock + drift, ahead, dur, rad)
        /\ nid' = IF Len(passes') > Len(passes) THEN nid + 1 ELSE nid
    /\ UNCHANGED <<t, frequency, receiver, exc, evals, owed>>

\* observer.next_pass raises: nothing catches it and the program ends
PredictorRaises ==
    /\ pc = "sats"
    /\ t > next_check_time[sidx]
    /\ pc' = "crashed"
    /\ exc' = [kind |-> "predictor", sat |-> sidx]
    /\ UNCHANGED <<clock, t, frequency, next_check_time, np, passes, receiver, sidx, idx,
                   nid, atStart, evals, owed>>

\* ------------------------------------------------------ for p in passes
\* t >= p.begin in place of line 175
DueInclusive(now_t, begin) == now_t >= begin

\* line 175
Due(now_t, begin) == now_t > begin

\* t >= p.end in place of line 189
OverInclusive(now_t, end) == now_t >= end

\* line 189
Over(now_t, end) == now_t > end

\* line 184 without its "not"
FreeInverted(r) == Running(r)

\* line 184
Free(r) == ~Running(r)

Keep(p, r) ==
    [status |-> p.status, receiver |-> r, call |-> "none", remove |-> FALSE,
     raise |-> FALSE]

\* the body of "for p in passes" on pass p, at loop time now_t, receiver r;
\* code is the return code of the recording process if it is stopped
Body(p, now_t, r, code) ==
    IF p.status = "future" THEN
        IF Due(now_t, p.begin) THEN
            IF Running(r)
            THEN [Keep(p, r) EXCEPT !.status = "deferred"]
            ELSE [Keep(p, r) EXCEPT !.status = "receiving", !.call = "start",
                                    !.receiver = ReceiverStart(r, frequency[p.sat], p.sat)]
        ELSE Keep(p, r)
    ELSE IF p.status = "deferred" THEN
        IF Free(r)
        THEN [Keep(p, r) EXCEPT !.status = "receiving", !.call = "start",
                                !.receiver = ReceiverStart(r, frequency[p.sat], p.sat)]
        ELSE Keep(p, r)
    ELSE IF p.status = "receiving" THEN
        IF Over(now_t, p.end) THEN
            IF Running(r) THEN
                IF r.frequency = frequency[p.sat]
                THEN [Keep(p, r) EXCEPT !.call = "stop", !.remove = TRUE,
                                        !.receiver = ReceiverStop(r, code)]
                ELSE [Keep(p, r) EXCEPT !.call = "missed", !.remove = TRUE]
            ELSE [Keep(p, r) EXCEPT !.raise = TRUE]
        ELSE Keep(p, r)
    ELSE Keep(p, r)

\* passes after the body ran on position i (1-based) with result res
After(s, i, res) ==
    IF res.remove THEN Remove(s, i) ELSE [s EXCEPT ![i].status = res.status]

\* the earliest-added deferred pass of s, as a history record
EarliestDeferred(s) ==
    LET D == {j \in 1..Len(s) : s[j].status = "deferred"}
    IN IF D = {} THEN NoOwed
       ELSE LET m == CHOOSE j \in D : \A k \in D : j <= k
            IN [id |-> s[m].id, age |-> 0, alone |-> (Len(s) = 1)]

\* one iteration of "for p in passes"
HandlePass ==
    /\ pc = "passes"
    /\ idx < Len(passes)
    /\ \E code \in ExitCodes :
        LET p == passes[idx + 1]
            res == Body(p, t, receiver, code)
            ps == After(passes, idx + 1, res)
        IN /\ (res.call # "stop") => code = 0
           /\ evals' = Append(evals,
                  [id |-> p.id, sat |-> p.sat, begin |-> p.begin, end |-> p.end,
                   from |-> p.status, to |-> res.status, busy |-> Running(receiver),
                   tuned |-> receiver.frequency, after |-> res.receiver,
                   call |-> res.call, code |-> code,
                   warned |-> (res.call = "stop" /\ StopWarns(code)),
                   removed |-> res.remove, raised |-> res.raise])
           /\ IF res.raise
              THEN /\ pc' = "crashed"
                   /\ exc' = [kind |-> "invariant", sat |-> p.sat]
                   /\ UNCHANGED <<passes, receiver, idx, owed>>
              ELSE /\ passes' = ps
                   /\ receiver' = res.receiver
                   /\ idx' = NextIdx(idx)
                   /\ pc' = IF NextIdx(idx) < Len(ps) THEN "passes" ELSE "sleep"
                   /\ owed' = IF res.remove THEN EarliestDeferred(ps) ELSE owed
                   /\ UNCHANGED exc
    /\ UNCHANGED <<clock, t, frequency, next_check_time, np, sidx, nid, atStart>>

\* time.sleep(1) returns and the loop reads the clock again
Sleep ==
    /\ pc = "sleep"
    /\ \E d \in 1..MaxStep :
        /\ clock + d <= MaxTime
        /\ clock' = clock + d
        /\ t' = clock + d
    /\ pc' = "sats"
    /\ sidx' = 1
    /\ idx' = 0
    /\ evals' = <<>>
    /\ atStart' = <<>>
    /\ np' = NoPass
    /\ owed' = IF owed.id = 0 THEN owed
               ELSE [owed EXCEPT !.age = IF owed.age < 2 THEN owed.age + 1 ELSE 2]
    /\ UNCHANGED <<frequency, next_check_time, passes, receiver, exc, nid>>

\* KeyboardInterrupt during time.sleep(1): break
Interrupt ==
    /\ pc = "sleep"
    /\ pc' = "done"
    /\ UNCHANGED <<clock, t, frequency, next_check_time, np, passes, receiver, sidx, idx,
                   exc, nid, atStart, evals, owed>>

\* KeyboardInterrupt outside the try of lines 200-203: nothing catches it and
\* the program ends with the exception
InterruptOutsideSleep ==
    /\ pc \in {"sats", "passes"}
    /\ pc' = "crashed"
    /\ exc' = [kind |-> "interrupt", sat |-> 0]
    /\ UNCHANGED <<clock, t, frequency, next_check_time, np, passes, receiver, sidx, idx,
                   nid, atStart, evals, owed>>

Next ==
    \/ SkipSat
    \/ Recompute
    \/ PredictorRaises
    \/ HandlePass
    \/ Sleep
    \/ Interrupt
    \/ InterruptOutsideSleep

Spec == Init /\ [][Next]_vars

\* ------------------------------------------------------------------ claims
Receiving == {i \in DOMAIN passes : passes[i].status = "receiving"}

Deferred == {i \in DOMAIN passes : passes[i].status = "deferred"}

Live(id) == \E i \in DOMAIN passes : passes[i].id = id

StatusOf(id) == passes[CHOOSE i \in DOMAIN passes : passes[i].id = id].status

Starts == {j \in DOMAIN evals : evals[j].call = "start"}

Closes == {j \in DOMAIN evals : evals[j].removed}

\* C1: in every state of the loop at most one pass of the list passes has
\* status 'receiving'.
C1_AtMostOneReceiving == Cardinality(Receiving) <= 1

\* C1 witness: a pass is being received while another pass with the same rise
\* time waits deferred.
C1_Witness ==
    \E i \in Receiving : \E j \in Deferred :
        passes[i].begin < passes[j].end /\ passes[j].begin < passes[i].end

\* C2: whenever a pass has status 'receiving' the receiver is running, and the
\* RuntimeError of line 197 is never raised.
C2_ReceivingImpliesRunning ==
    /\ (Receiving # {}) => Running(receiver)
    /\ exc.kind # "invariant"
    /\ \A j \in DOMAIN evals : ~evals[j].raised

\* C2 witness: a pass in status 'receiving' was evaluated after its set time
\* (the test of line 190 was made) while another pass is being received.
C2_Witness ==
    /\ \E j \in DOMAIN evals : evals[j].from = "receiving" /\ t > evals[j].end
    /\ Receiving # {}

\* C3: when "for p in passes" has finished, the passes it evaluated are the
\* passes that were in the list when it began, each once, in list order.
C3_EveryLivePassEvaluatedOnce ==
    (pc = "sleep") => [j \in DOMAIN evals |-> evals[j].id] = atStart

C5_InclusiveBounds ==
    \A j \in DOMAIN evals :
        /\ (evals[j].from = "future" /\ t = evals[j].begin /\ ~evals[j].busy) =>
              (evals[j].to = "receiving" /\ evals[j].call = "start")
        /\ (evals[j].from = "receiving" /\ t = evals[j].end) =>
              (evals[j].call = "stop" /\ evals[j].removed)

\* C5 amended: the tests are strict.  A 'future' pass evaluated with the
\* receiver idle is started exactly when t is after its rise time, and a
\* 'receiving' pass is stopped and removed exactly when t is after its set time;
\* at t equal to the rise or set time nothing happens to the pass.
C5_StrictBounds ==
    \A j \in DOMAIN evals :
        /\ (evals[j].from = "future" /\ ~evals[j].busy) =>
              /\ (t > evals[j].begin) <=>
                    (evals[j].to = "receiving" /\ evals[j].call = "start"
                     /\ evals[j].after.frequency = frequency[evals[j].sat])
              /\ (t <= evals[j].begin) <=>
                    (evals[j].to = "future" /\ evals[j].call = "none")
        /\ (evals[j].from = "receiving") =>
              /\ (t > evals[j].end) <=>
                    (evals[j].call = "stop" /\ evals[j].removed /\ ~Live(evals[j].id))
              /\ (t <= evals[j].end) <=>
                    (evals[j].to = "receiving" /\ evals[j].call = "none"
                     /\ Live(evals[j].id))

\* C5 witness: in one tick a 'receiving' pass is evaluated at exactly its set
\* time and a 'future' pass at exactly its rise time.
C5_Witness ==
    /\ \E j \in DOMAIN evals : evals[j].from = "receiving" /\ t = evals[j].end
    /\ \E j \in DOMAIN evals : evals[j].from = "future" /\ t = evals[j].begin

C8_StopAlwaysFrees ==
    \A j \in DOMAIN evals :
        (evals[j].call = "stop") =>
            /\ evals[j].after = [proc |-> None, frequency |-> None]
            /\ ~Running(evals[j].after)
            /\ (j = Len(evals)) => (~Running(receiver) /\ receiver.frequency = None)
            /\ evals[j].warned <=> (evals[j].code \notin {0, -15})
            /\ evals[j].removed /\ ~Live(evals[j].id)
            /\ ~evals[j].raised
            /\ exc.kind \in {"none", "interrupt"}
            /\ (exc.kind = "none") => pc \in {"passes", "sleep", "done"}

\* C8 witness: the last loop body of the tick called stop(), the process
\* returned 1, and another pass is still in the list.
C8_Witness ==
    /\ evals # <<>>
    /\ evals[Len(evals)].call = "stop"
    /\ evals[Len(evals)].code = 1
    /\ passes # <<>>

\* C9: when observer.next_pass raises for one satellite the program keeps
\* running.
C9_PredictorFailureIsolated ==
    (exc.kind = "predictor") => (pc \in {"sats", "passes", "sleep"})

\* C10: the pass constructed last has interesting = False exactly when
\* begin <= now, or its peak elevation is under 35 degrees, or end <= begin.
C10_InvalidIff ==
    (np.sat # 0) =>
        ((np.interesting = FALSE) <=>
            (np.begin <= np.now \/ np.max_elevation < 35000 \/ np.end <= np.begin))

\* C10 witness: a pass in the future, with end after begin, is rejected for its
\* peak elevation alone.
C10_Witness ==
    /\ np.sat # 0
    /\ np.begin > np.now /\ np.end > np.begin
    /\ np.max_elevation < 35000
    /\ np.interesting = FALSE

LiveIn(ps, id) == \E i \in DOMAIN ps : ps[i].id = id

\* np' is a pass constructed by this step, for satellite s
Constructed(s) == np' # np /\ np'.sat = s

\* C11: every recomputation of a satellite, whatever the pass it returns, is
\* made at a tick with t > next_check_time, and sets next_check_time to the
\* returned pass's end plus one minute, which is greater than its value before;
\* nothing else changes next_check_time.
C11_NextCheckAdvances ==
    [][\A s \in Sats :
          /\ Constructed(s) =>
                /\ t > next_check_time[s]
                /\ next_check_time'[s] = np'.end + Minute
                /\ next_check_time'[s] > next_check_time[s]
          /\ (next_check_time'[s] # next_check_time[s]) => Constructed(s)]_vars

\* C11 witness: a satellite was recomputed a second time, the pass returned is
\* not interesting, and next_check_time is its end plus one minute.
C11_Witness ==
    /\ np.sat # 0 /\ t > 1 /\ ~np.interesting
    /\ next_check_time[np.sat] = np.end + Minute

\* C12: every pass in the list has end > begin and a peak elevation of at
\* least 35 degrees; a pass is appended only when it was just constructed
\* interesting, with begin after the clock at its construction; a pass
\* constructed not interesting leaves the list as it is and still sets its
\* satellite's next_check_time.
C12_OnlyInterestingPassesAreLive ==
    [][/\ \A i \in DOMAIN passes' :
             passes'[i].end > passes'[i].begin /\ passes'[i].max_elevation >= 35000
       /\ (Len(passes') > Len(passes)) =>
             /\ np' # np /\ np'.interesting /\ np'.begin > np'.now
             /\ passes' = Append(passes, passes'[Len(passes')])
             /\ passes'[Len(passes')].begin = np'.begin
             /\ passes'[Len(passes')].end = np'.end
             /\ passes'[Len(passes')].max_elevation = np'.max_elevation
             /\ passes'[Len(passes')].sat = np'.sat
       /\ \A s \in Sats :
             (Constructed(s) /\ ~np'.interesting) =>
                 (passes' = passes /\ next_check_time'[s] = np'.end + Minute
                  /\ next_check_time'[s] > next_check_time[s])]_vars

\* C12 witness: a pass of about 20 degrees, in the future and with end after
\* begin, was constructed while other passes are in the list; it is not in it.
C12_Witness ==
    /\ np.sat # 0 /\ np.max_elevation < 21000
    /\ np.begin > np.now /\ np.end > np.begin
    /\ passes # <<>>
    /\ \A i \in DOMAIN passes : passes[i].sat # np.sat
    /\ next_check_time[np.sat] = np.end + Minute

\* C13: a KeyboardInterrupt, wherever in the tick it arrives, ends the loop by
\* the break of line 203, with the receiver and the list as they were and no
\* stop() called.
C13_InterruptEndsCleanly ==
    [][(pc \notin {"done", "crashed"} /\ (pc' = "done" \/ exc'.kind = "interrupt")) =>
          (pc' = "done" /\ receiver' = receiver /\ passes' = passes /\ evals' = evals)]_vars

\* C14: start() is called only when the receiver is not running, and stop() only
\* when it is running and tuned to the frequency of the pass being closed.
C14_PreconditionsRespected ==
    \A j \in DOMAIN evals :
        /\ (evals[j].call = "start") => (~evals[j].busy /\ evals[j].tuned = None)
        /\ (evals[j].call = "stop") =>
              (evals[j].busy /\ evals[j].tuned = frequency[evals[j].sat]
               /\ evals[j].from = "receiving")

\* C14 witness: in one tick stop() was called for a pass and then start() for a
\* pass of a satellite with another frequency.
C14_Witness ==
    \E j \in DOMAIN evals : \E k \in DOMAIN evals :
        /\ j < k /\ evals[j].call = "stop" /\ evals[k].call = "start"
        /\ frequency[evals[j].sat] # frequency[evals[k].sat]

\* C15: a pass leaves the list only in the loop body that evaluates it, in
\* status 'receiving' with t > end; a pass that left the list is not evaluated
\* again and does not come back.
C15_RemovedOnlyWhenClosed ==
    [][/\ \A i \in DOMAIN passes :
             ~LiveIn(passes', passes[i].id) =>
                 /\ passes[i].status = "receiving" /\ t > passes[i].end
                 /\ pc = "passes" /\ idx + 1 = i
       /\ \A j \in DOMAIN evals' :
             evals'[j].removed => (evals'[j].from = "receiving" /\ t' > evals'[j].end)
       /\ \A j \in DOMAIN evals' : \A k \in DOMAIN evals' :
             (j < k /\ evals'[j].removed) => evals'[k].id # evals'[j].id
       /\ (Len(evals') > Len(evals)) => LiveIn(passes, evals'[Len(evals')].id)
       /\ \A id \in 1..(nid - 1) : ~LiveIn(passes, id) => ~LiveIn(passes', id)]_vars

\* C15 witness: a pass has left the list, and a later tick that closes nothing
\* has evaluated the passes that remain.
C15_Witness ==
    /\ \E id \in 1..(nid - 1) : ~Live(id)
    /\ evals # <<>> /\ Closes = {}
    /\ Deferred # {}

\* C16: the branch 'setting, pass missed' of line 195 is never taken.
C16_PassMissedNeverTaken ==
    \A j \in DOMAIN evals : evals[j].call # "missed"

\* C16 witness: a reception is stopped at its end while a pass of a satellite
\* with another frequency, whose window overlaps it, waits deferred.
C16_Witness ==
    \E j \in DOMAIN evals :
        /\ evals[j].call = "stop"
        /\ \E i \in Deferred :
              /\ frequency[passes[i].sat] # frequency[evals[j].sat]
              /\ passes[i].begin < evals[j].end /\ evals[j].begin < passes[i].end

\* C17: when the receiver is running exactly one pass is 'receiving' and the
\* receiver is tuned to the frequency of that pass's satellite; when it is not
\* running no pass is 'receiving'.
C17_ReceiverMatchesReceivingPass ==
    /\ Running(receiver) =>
          /\ Cardinality(Receiving) = 1
          /\ \A i \in Receiving : receiver.frequency = frequency[passes[i].sat]
    /\ ~Running(receiver) => Receiving = {}

\* C17 witness: a pass is being received while a pass of a satellite with
\* another frequency waits deferred, after an earlier reception was stopped.
C17_Witness ==
    /\ Running(receiver)
    /\ \E i \in Receiving : \E k \in Deferred :
          frequency[passes[i].sat] # frequency[passes[k].sat]
    /\ \E id \in 1..(nid - 1) : ~Live(id)

\* C19 as stated: every start() is called for a pass with begin < t <= end.
C19_StartedInsideWindow ==
    \A j \in DOMAIN evals :
        (evals[j].call = "start") => (evals[j].begin < t /\ t <= evals[j].end)

\* C19 amended: every start() is called for a pass with begin < t, from status
\* 'future' or 'deferred'; t <= end is not tested, and a pass whose end has
\* elapsed is started all the same.
C19_StartedAfterBegin ==
    \A j \in DOMAIN evals :
        (evals[j].call = "start") =>
            (evals[j].begin < t /\ evals[j].from \in {"future", "deferred"})

\* C19 witness: start() is called for a deferred pass whose end has elapsed.
C19_Witness ==
    \E j \in DOMAIN evals :
        evals[j].call = "start" /\ evals[j].from = "deferred" /\ t > evals[j].end

====
